---- MODULE Spec2Model ----
(***************************************************************************)
(* A model of lsblk-rs: the reconciliation of the /dev/disk/by-* symlink   *)
(* farms into block-device records (BlockDevice::list, ::from_path), the   *)
(* derived predicates, the sysfs capacity read and the /proc/mounts reader.*)
(*                                                                         *)
(* Text is modelled as sequences of one-character strings, so that prefix  *)
(* stripping, splitting, trimming and parsing are computed, not assumed.   *)
(***************************************************************************)
EXTENDS Integers, Sequences, FiniteSets, TLC

VARIABLES
    fs,        \* the seven /dev/disk/by-<kind> directories
    budget,    \* how many more changes the environment may make to fs
    pc,        \* control position of the call in progress
    done,      \* BlockDevice::list: the directories already passed over
    kind,      \* BlockDevice::list: the directory being passed over
    it,        \* BlockDevice::list: what is left of the ls_symlinks iterator
    result,    \* BlockDevice::list: the HashMap `result`
    ret,       \* value returned by BlockDevice::list
    order,     \* BlockDevice::list: the directories that yielded items, in pass order
    arg,       \* path given to BlockDevice::from_path
    res,       \* value returned by BlockDevice::from_path
    dev,       \* the BlockDevice a predicate or capacity() is called on
    phys,      \* outcome of BlockDevice::is_physical
    sysfs,     \* the device node and its sysfs size file, as capacity() finds them
    cap,       \* outcome of BlockDevice::capacity
    mounts,    \* /proc/mounts
    lines_read,\* Mount::list: the lines the reader has consumed
    mlist,     \* Mount::list: the records yielded so far, or the error
    mountopts, \* the mountopts of the Mount iter_mountopts is called on
    opts_it,   \* Mount::iter_mountopts: the tokens the iterator has yet to map
    pairs,     \* Mount::iter_mountopts: the pairs yielded so far
    pkind,     \* Populate: the slot of the last populate_<slot> call
    pret       \* Populate: the value that call returned

listVars == <<fs, budget, done, kind, it, order, result, ret, arg, res>>
devVars == <<dev, phys, sysfs, cap>>
mountVars == <<mounts, lines_read, mlist>>
optVars == <<mountopts, opts_it, pairs>>
popVars == <<pkind, pret>>
vars == <<pc, listVars, devVars, mountVars, optVars, popVars>>

(***************************************************************************)
(* Bounds                                                                  *)
(***************************************************************************)
\* environment changes (symlink creations, chmods) before a call, Spec
MaxSetup == 3
\* the same for the specification that permutes the passes
MaxSetupPerm == 2

(***************************************************************************)
(* Text                                                                    *)
(***************************************************************************)
DevPrefix == <<"/", "d", "e", "v", "/">>

\* the device nodes links resolve to, and one file that is not under /dev/
Sda1 == DevPrefix \o <<"s", "d", "a", "1">>
Mmcblk0 == DevPrefix \o <<"m", "m", "c", "b", "l", "k", "0">>
TmpFile == <<"/", "t", "m", "p", "/", "f">>
DevNodes == {Sda1, Mmcblk0}

\* file names of the links of one directory, in the order they are created
LinkNames == <<"l1", "l2", "l3", "l4", "l5">>

None == <<>>
Some(x) == <<x>>

\* Path::strip_prefix: Some(rest) when p starts with prefix, else None
strip_prefix(p, prefix) ==
    IF Len(p) >= Len(prefix) /\ SubSeq(p, 1, Len(prefix)) = prefix
    THEN Some(SubSeq(p, Len(prefix) + 1, Len(p)))
    ELSE None

(***************************************************************************)
(* The file system                                                         *)
(***************************************************************************)
\* the attribute slots of BlockDevice, in the order list() passes over them
Kinds == <<"diskseq", "path", "uuid", "partuuid", "label", "partlabel", "id">>
KindSet == {Kinds[i] : i \in 1..Len(Kinds)}

\* what a directory entry can be: a link to a node, a link that does not
\* canonicalize, or something that is no link
EntryTargets ==
    {[is_symlink |-> TRUE, resolves |-> TRUE, dest |-> d] : d \in DevNodes}
    \cup {[is_symlink |-> TRUE, resolves |-> FALSE, dest |-> <<>>],
          [is_symlink |-> FALSE, resolves |-> FALSE, dest |-> <<>>]}

AbsentDir == [exists |-> FALSE, readable |-> FALSE, entries |-> <<>>]

\* the environment adds an entry to a directory (creating the directory with
\* it); entries are kept in the order read_dir enumerates them
EnvAddEntry(k, t) ==
    /\ pc = "setup"
    /\ budget > 0
    /\ Len(fs[k].entries) < Len(LinkNames)
    /\ ~fs[k].exists \/ fs[k].readable
    /\ fs' = [fs EXCEPT ![k] =
                [exists |-> TRUE, readable |-> TRUE,
                 entries |-> Append(fs[k].entries,
                    [src |-> LinkNames[Len(fs[k].entries) + 1],
                     is_symlink |-> t.is_symlink,
                     resolves |-> t.resolves,
                     dest |-> t.dest])]]
    /\ budget' = budget - 1
    /\ UNCHANGED <<pc, done, kind, it, order, result, ret, arg, res>>
    /\ UNCHANGED <<devVars, mountVars, optVars, popVars>>

\* the directory exists and read_dir on it fails
EnvChmod(k) ==
    /\ pc = "setup"
    /\ budget > 0
    /\ fs[k].readable
    /\ fs' = [fs EXCEPT ![k].readable = FALSE]
    /\ budget' = budget - 1
    /\ UNCHANGED <<pc, done, kind, it, order, result, ret, arg, res>>
    /\ UNCHANGED <<devVars, mountVars, optVars, popVars>>

(***************************************************************************)
(* ls_symlinks                                                             *)
(***************************************************************************)
RECURSIVE SymlinkItems(_, _)
\* filter(is_symlink) then map(canonicalize): one item per link, Ok or Err
SymlinkItems(k, entries) ==
    IF entries = <<>> THEN <<>>
    ELSE LET f == Head(entries)
             rest == SymlinkItems(k, Tail(entries))
         IN  IF ~f.is_symlink THEN rest
             ELSE IF f.resolves
                  THEN <<[ok |-> TRUE, dest |-> f.dest, src |-> f.src]>> \o rest
                  ELSE <<[ok |-> FALSE, err |-> "BadSymlink", dir |-> k, src |-> f.src]>>
                       \o rest

\* variant of ls_symlinks in which a directory that does not exist is an error
ls_symlinks_absent_is_error(k, dir) ==
    IF dir.exists /\ dir.readable
    THEN [tag |-> "Ok", items |-> SymlinkItems(k, dir.entries)]
    ELSE [tag |-> "Err", err |-> [err |-> "ReadDir", dir |-> k]]

ls_symlinks(k, dir) ==
    IF dir.exists
    THEN IF dir.readable
         THEN [tag |-> "Ok", items |-> SymlinkItems(k, dir.entries)]
         ELSE [tag |-> "Err", err |-> [err |-> "ReadDir", dir |-> k]]
    ELSE [tag |-> "Ok", items |-> <<>>]

(***************************************************************************)
(* BlockDevice and the HashMap of BlockDevice::list                        *)
(***************************************************************************)
\* Self::default()
Default ==
    [name |-> <<>>, fullname |-> <<>>, diskseq |-> None, path |-> None,
     uuid |-> None, partuuid |-> None, label |-> None, partlabel |-> None,
     id |-> None]

\* a HashMap is a set of (key, value) entries
HashMap_get(m, key) == {e \in m : e.key = key}

\* variant of insert that does not replace the entry of an existing key
HashMap_insert_keeps_old(m, key, val) == m \cup {[key |-> key, val |-> val]}

HashMap_insert(m, key, val) ==
    {e \in m : e.key # key} \cup {[key |-> key, val |-> val]}

\* Self { name, fullname, $kind: Some(blk), ..Self::default() }
NewDevice(name, fullname, k, blk) ==
    [[Default EXCEPT !.name = name, !.fullname = fullname] EXCEPT ![k] = Some(blk)]

\* variant of the update that replaces the record, as the by-diskseq loop does
SetSlot_resets_record(m, name, fullname, k, blk) ==
    HashMap_insert(m, name, NewDevice(name, fullname, k, blk))

\* bd.$kind = Some(blk) on the entry result.get_mut(&name) found
SetSlot(m, name, fullname, k, blk) ==
    {IF e.key = name THEN [e EXCEPT !.val[k] = Some(blk)] ELSE e : e \in m}

\* the body of one `for x in ls_symlinks(..)?` iteration on an Ok item:
\* the by-diskseq loop inserts, the insert! macro updates or inserts
InsertItem(m, k, x) ==
    LET name == strip_prefix(x.dest, DevPrefix)
    IN  IF name = None THEN [tag |-> "Panic"]
        ELSE IF k = "diskseq"
             THEN [tag |-> "Ok",
                   map |-> HashMap_insert(m, name[1], NewDevice(name[1], x.dest, k, x.src))]
             ELSE IF HashMap_get(m, name[1]) # {}
                  THEN [tag |-> "Ok", map |-> SetSlot(m, name[1], x.dest, k, x.src)]
                  ELSE [tag |-> "Ok",
                        map |-> HashMap_insert(m, name[1],
                                               NewDevice(name[1], x.dest, k, x.src))]

\* result.into_values().collect(): the bag of the values
IntoValues(m) ==
    LET vals == {e.val : e \in m}
    IN  [v \in vals |-> Cardinality({e \in m : e.val = v})]

(***************************************************************************)
(* BlockDevice::list, one step per directory opened and per item           *)
(***************************************************************************)
NoRet == [tag |-> "None"]

list_call ==
    /\ pc = "setup"
    /\ pc' = "list"
    /\ done' = {}
    /\ kind' = "none"
    /\ it' = <<>>
    /\ order' = <<>>
    /\ result' = {}
    /\ UNCHANGED <<fs, budget, ret, arg, res>>
    /\ UNCHANGED <<devVars, mountVars, optVars, popVars>>

\* the next directory in the order of the source
NextKind == Kinds[Cardinality(done) + 1]

\* `ls_symlinks(dir)?` at the head of a loop
OpenDir(k) ==
    /\ pc = "list"
    /\ it = <<>>
    /\ k \notin done
    /\ LET ls == ls_symlinks(k, fs[k])
       IN  IF ls.tag = "Err"
           THEN /\ pc' = "listed"
                /\ ret' = [tag |-> "Err", err |-> ls.err]
                /\ UNCHANGED <<it, done, kind, order>>
           ELSE /\ it' = ls.items
                /\ kind' = k
                /\ done' = done \cup {k}
                /\ order' = IF ls.items = <<>> THEN order ELSE Append(order, k)
                /\ UNCHANGED <<pc, ret>>
    /\ UNCHANGED <<fs, budget, result, arg, res>>
    /\ UNCHANGED <<devVars, mountVars, optVars, popVars>>

list_open ==
    /\ Cardinality(done) < Len(Kinds)
    /\ OpenDir(NextKind)

\* one iteration of the loop: `let (fullname, blk) = x?;` and the insertion
list_step ==
    /\ pc = "list"
    /\ it # <<>>
    /\ LET x == Head(it)
       IN  IF ~x.ok
           THEN /\ pc' = "listed"
                /\ ret' = [tag |-> "Err", err |-> [err |-> x.err, dir |-> x.dir, src |-> x.src]]
                /\ UNCHANGED <<it, result>>
           ELSE LET r == InsertItem(result, kind, x)
                IN  IF r.tag = "Panic"
                    THEN /\ pc' = "listed"
                         /\ ret' = [tag |-> "Panic"]
                         /\ UNCHANGED <<it, result>>
                    ELSE /\ result' = r.map
                         /\ it' = Tail(it)
                         /\ UNCHANGED <<pc, ret>>
    /\ UNCHANGED <<fs, budget, done, kind, order, arg, res>>
    /\ UNCHANGED <<devVars, mountVars, optVars, popVars>>

\* Ok(result.into_values().collect())
list_return ==
    /\ pc = "list"
    /\ it = <<>>
    /\ done = KindSet
    /\ pc' = "listed"
    /\ ret' = [tag |-> "Ok", val |-> IntoValues(result)]
    /\ UNCHANGED <<fs, budget, done, kind, it, order, result, arg, res>>
    /\ UNCHANGED <<devVars, mountVars, optVars, popVars>>

(***************************************************************************)
(* BlockDevice::list as one fold, over the directories in a given order    *)
(***************************************************************************)
RECURSIVE FoldItems(_, _, _)
\* the loop over one directory's items, from the map m
FoldItems(m, k, items) ==
    IF items = <<>> THEN [tag |-> "Ok", map |-> m]
    ELSE LET x == Head(items)
         IN  IF ~x.ok
             THEN [tag |-> "Err", err |-> [err |-> x.err, dir |-> x.dir, src |-> x.src]]
             ELSE LET r == InsertItem(m, k, x)
                  IN  IF r.tag = "Panic" THEN r
                      ELSE FoldItems(r.map, k, Tail(items))

RECURSIVE FoldDirs(_, _, _)
\* the loops over the directories named by dirs, one after the other
FoldDirs(m, fsx, dirs) ==
    IF dirs = <<>> THEN [tag |-> "Ok", val |-> IntoValues(m)]
    ELSE LET k == Head(dirs)
             ls == ls_symlinks(k, fsx[k])
         IN  IF ls.tag = "Err" THEN [tag |-> "Err", err |-> ls.err]
             ELSE LET r == FoldItems(m, k, ls.items)
                  IN  IF r.tag = "Ok" THEN FoldDirs(r.map, fsx, Tail(dirs))
                      ELSE r

\* BlockDevice::list() over the file system fsx
ListAll(fsx) == FoldDirs({}, fsx, Kinds)

(***************************************************************************)
(* BlockDevice::from_path                                                  *)
(***************************************************************************)
\* a path that names nothing
Missing == DevPrefix \o <<"x">>

\* the paths from_path is called with: a node, a file, a name that does not
\* exist, or a link of one of the seven directories
NodeArgs == {[via |-> "node", path |-> p] : p \in DevNodes \cup {TmpFile, Missing}}
LinkArgs(fsx) ==
    UNION {{[via |-> "link", dir |-> k, src |-> fsx[k].entries[i].src] :
                i \in {j \in 1..Len(fsx[k].entries) : fsx[k].entries[j].is_symlink}} :
           k \in KindSet}

\* Path::canonicalize: Some(absolute path with every link resolved), or None
canonicalize(fsx, a) ==
    IF a.via = "node"
    THEN IF a.path \in DevNodes \cup {TmpFile} THEN Some(a.path) ELSE None
    ELSE LET hits == {i \in 1..Len(fsx[a.dir].entries) :
                        fsx[a.dir].entries[i].src = a.src}
         IN  IF hits = {} THEN None
             ELSE LET f == fsx[a.dir].entries[CHOOSE i \in hits : TRUE]
                  IN  IF f.is_symlink /\ f.resolves THEN Some(f.dest) ELSE None

\* from_abs_path_unpopulated
from_abs_path_unpopulated(absolute_path) ==
    LET name == strip_prefix(absolute_path, DevPrefix)
    IN  IF name = None THEN [tag |-> "Panic"]
        ELSE [tag |-> "Ok",
              val |-> [Default EXCEPT !.name = name[1], !.fullname = absolute_path]]

RECURSIVE find(_, _)
\* Iterator::find(|elm| elm.is_ok_and(|(fullname, _)| fullname == &pathbuf))
find(items, pathbuf) ==
    IF items = <<>> THEN None
    ELSE IF Head(items).ok /\ Head(items).dest = pathbuf
         THEN Some(Head(items))
         ELSE find(Tail(items), pathbuf)

RECURSIVE FromPathFill(_, _, _, _)
\* insert!(diskseq); ... insert!(id); Ok(res)
FromPathFill(fsx, pathbuf, rec, dirs) ==
    IF dirs = <<>> THEN [tag |-> "Ok", val |-> rec]
    ELSE LET k == Head(dirs)
             ls == ls_symlinks(k, fsx[k])
         IN  IF ls.tag = "Err" THEN [tag |-> "Err", err |-> ls.err]
             ELSE LET hit == find(ls.items, pathbuf)
                  IN  FromPathFill(fsx, pathbuf,
                                   IF hit = None THEN rec
                                   ELSE [rec EXCEPT ![k] = Some(hit[1].src)],
                                   Tail(dirs))

FromPath(fsx, a) ==
    LET pathbuf == canonicalize(fsx, a)
    IN  IF pathbuf = None
        THEN [tag |-> "Err", err |-> [err |-> "BadSymlink", arg |-> a]]
        ELSE LET r == from_abs_path_unpopulated(pathbuf[1])
             IN  IF r.tag = "Panic" THEN r
                 ELSE FromPathFill(fsx, pathbuf[1], r.val, Kinds)

\* a call of BlockDevice::from_path, after the call of list
from_path_call(a) ==
    /\ pc = "listed"
    /\ pc' = "resolved"
    /\ arg' = a
    /\ res' = FromPath(fs, a)
    /\ UNCHANGED <<fs, budget, done, kind, it, order, result, ret>>
    /\ UNCHANGED <<devVars, mountVars, optVars, popVars>>

(***************************************************************************)
(* BlockDevice::list with the six passes after by-diskseq in any order     *)
(***************************************************************************)
perm_open ==
    \E k \in KindSet :
        /\ k = "diskseq" \/ "diskseq" \in done
        /\ OpenDir(k)

(***************************************************************************)
(* BlockDevice::is_physical                                                *)
(***************************************************************************)
\* name.as_bytes().split_at(6)
MmcPrefixLen == 6
MmcPrefix == <<"m", "m", "c", "b", "l", "k">>

\* names of device nodes: shorter than, as long as and longer than "mmcblk"
Names ==
    {<<"s", "d", "a">>,
     <<"s", "r", "0">>,
     <<"s", "d", "a", "1">>,
     <<"d", "m", "-", "0">>,
     <<"l", "o", "o", "p", "0">>,
     <<"z", "r", "a", "m", "0">>,
     <<"l", "o", "o", "p", "1", "0">>,
     <<"m", "m", "c", "b", "l", "k">>,
     <<"m", "m", "c", "b", "l", "k", "0">>,
     <<"m", "m", "c", "b", "l", "o", "c">>,
     <<"n", "v", "m", "e", "0", "n", "1">>,
     <<"m", "m", "c", "b", "l", "k", "0", "p", "1">>,
     <<"n", "v", "m", "e", "0", "n", "1", "p", "1">>}

\* the records a predicate is called on: any name, the path and partuuid
\* slots present or absent
Devices ==
    {[Default EXCEPT !.name = n, !.fullname = DevPrefix \o n,
                     !.path = p, !.partuuid = u] :
        n \in Names, p \in {None, Some("l1")}, u \in {None, Some("l2")}}

\* <[u8]>::split_at(mid): panics when mid > len
split_at(bytes, mid) ==
    IF mid > Len(bytes) THEN [tag |-> "Panic"]
    ELSE [tag |-> "Ok", val |-> <<SubSeq(bytes, 1, mid), SubSeq(bytes, mid + 1, Len(bytes))>>]

\* self.path.is_some() || matches!(self.name.as_bytes().split_at(6).0, b"mmcblk")
is_physical(d) ==
    IF d.path # None THEN [tag |-> "Ok", val |-> TRUE]
    ELSE LET sp == split_at(d.name, MmcPrefixLen)
         IN  IF sp.tag = "Panic" THEN sp
             ELSE [tag |-> "Ok", val |-> sp.val[1] = MmcPrefix]

is_part(d) == d.partuuid # None

is_disk(d) == ~is_part(d)

is_physical_call ==
    /\ pc = "dev"
    /\ pc' = "is_physical"
    /\ phys' = is_physical(dev)
    /\ UNCHANGED <<listVars, mountVars, optVars, popVars, dev, sysfs, cap>>

(***************************************************************************)
(* BlockDevice::capacity                                                   *)
(***************************************************************************)
\* characters of a size file; "e'" stands for a character of two bytes
SizeChars == {"0", "7", "+", "x", "\n", "e'"}
Utf8Len(c) == IF c = "e'" THEN 2 ELSE 1

MaxSizeLen == 3
Digits == <<"0", "1", "2", "3", "4", "5", "6", "7", "8", "9">>
DigitSet == {Digits[i] : i \in 1..Len(Digits)}
DigitVal(c) == (CHOOSE i \in 1..Len(Digits) : Digits[i] = c) - 1

\* u64::MAX and u64::MAX + 1 in decimal
U64Max == <<"1", "8", "4", "4", "6", "7", "4", "4", "0", "7", "3", "7", "0", "9",
            "5", "5", "1", "6", "1", "5">>
U64Over == <<"1", "8", "4", "4", "6", "7", "4", "4", "0", "7", "3", "7", "0", "9",
             "5", "5", "1", "6", "1", "6">>

ShortTexts == UNION {[1..n -> SizeChars] : n \in 0..MaxSizeLen}
SizeTexts ==
    ShortTexts \cup {U64Max \o <<"\n">>, U64Over \o <<"\n">>, <<"0", "0">> \o U64Max \o <<"\n">>}

\* what capacity() finds: whether the node can be stat'ed, whether the size
\* file can be read as UTF-8, and its content
SysfsStates ==
    {[stat_ok |-> TRUE, read_ok |-> TRUE, content |-> t] : t \in SizeTexts}
    \cup {[stat_ok |-> FALSE, read_ok |-> FALSE, content |-> <<>>],
          [stat_ok |-> TRUE, read_ok |-> FALSE, content |-> <<>>]}

RECURSIVE StripZeros(_)
StripZeros(ds) ==
    IF Len(ds) > 1 /\ Head(ds) = "0" THEN StripZeros(Tail(ds)) ELSE ds

RECURSIVE NumLess(_, _)
\* a < b for two numerals of the same length
NumLess(a, b) ==
    IF a = <<>> THEN FALSE
    ELSE IF Head(a) # Head(b) THEN DigitVal(Head(a)) < DigitVal(Head(b))
         ELSE NumLess(Tail(a), Tail(b))

\* <u64 as FromStr>::from_str: an optional '+', then one or more digits, and a
\* value of at most u64::MAX; the value is given as its decimal numeral
parse_u64(src) ==
    IF src = <<>> THEN None
    ELSE LET ds == IF Head(src) = "+" THEN Tail(src) ELSE src
         IN  IF ds = <<>> \/ \E i \in 1..Len(ds) : ds[i] \notin DigitSet THEN None
             ELSE LET n == StripZeros(ds)
                  IN  IF Len(n) > Len(U64Max) \/ (Len(n) = Len(U64Max) /\ NumLess(U64Max, n))
                      THEN None
                      ELSE Some(n)

RECURSIVE ByteLen(_)
ByteLen(str) == IF str = <<>> THEN 0 ELSE Utf8Len(Head(str)) + ByteLen(Tail(str))

\* &s[..end] for a byte index end: panics when end is past the end of s or
\* inside a character (end = -1 stands for the wrapped or overflowed 0 - 1)
slice_to(str, end) ==
    IF end < 0 \/ end > ByteLen(str) THEN [tag |-> "Panic"]
    ELSE LET cuts == {n \in 0..Len(str) : ByteLen(SubSeq(str, 1, n)) = end}
         IN  IF cuts = {} THEN [tag |-> "Panic"]
             ELSE [tag |-> "Ok", val |-> SubSeq(str, 1, CHOOSE n \in cuts : TRUE)]

\* let p = self.sysfs()?.join("size"); let s = read_to_string(p)?;
\* Ok(s[..s.len() - 1].parse().ok())
capacity(sf) ==
    IF ~sf.stat_ok \/ ~sf.read_ok THEN [tag |-> "Err", err |-> "io"]
    ELSE LET cut == slice_to(sf.content, ByteLen(sf.content) - 1)
         IN  IF cut.tag = "Panic" THEN cut
             ELSE [tag |-> "Ok", val |-> parse_u64(cut.val)]

capacity_call ==
    /\ pc = "dev"
    /\ pc' = "capacity"
    /\ cap' = capacity(sysfs)
    /\ UNCHANGED <<listVars, mountVars, optVars, popVars, dev, phys, sysfs>>

(***************************************************************************)
(* Mount::list                                                             *)
(***************************************************************************)
\* the pattern of trim_end_matches and the separator of split
ZeroZero == <<" ", "0", " ", "0">>
Space == " "

ends_with(str, pat) ==
    Len(str) >= Len(pat) /\ SubSeq(str, Len(str) - Len(pat) + 1, Len(str)) = pat

RECURSIVE trim_end_matches(_, _)
\* str::trim_end_matches: the pattern is removed as often as it ends the string
trim_end_matches(str, pat) ==
    IF ends_with(str, pat)
    THEN trim_end_matches(SubSeq(str, 1, Len(str) - Len(pat)), pat)
    ELSE str

RECURSIVE SplitFrom(_, _, _)
\* the fields after cur, the field being read, given the rest of the string
SplitFrom(rest, cur, sep) ==
    IF rest = <<>> THEN <<cur>>
    ELSE IF Head(rest) = sep THEN <<cur>> \o SplitFrom(Tail(rest), <<>>, sep)
         ELSE SplitFrom(Tail(rest), Append(cur, Head(rest)), sep)

\* str::split(' '): every separator ends a field, so fields can be empty
split(str, sep) == SplitFrom(str, <<>>, sep)

\* variant of the closure that takes device and mountpoint in the wrong order
mount_of_line_swapped(l) ==
    LET parts == split(trim_end_matches(l, ZeroZero), Space)
    IN  IF Len(parts) < 4 THEN None
        ELSE Some([device |-> parts[2], mountpoint |-> parts[1],
                   fstype |-> parts[3], mountopts |-> parts[4]])

\* the closure of filter_map: four times parts.next()?
mount_of_line(l) ==
    LET parts == split(trim_end_matches(l, ZeroZero), Space)
    IN  IF Len(parts) < 4 THEN None
        ELSE Some([device |-> parts[1], mountpoint |-> parts[2],
                   fstype |-> parts[3], mountopts |-> parts[4]])

\* lines of /proc/mounts: one to four one-character fields, single spaces
\* or one double space between them, and an ending
MaxLines == 2
FieldNames == <<"a", "b", "c", "d">>
Endings ==
    {<<>>, ZeroZero, ZeroZero \o ZeroZero, <<" ", "0", " ", "1">>, ZeroZero \o <<" ">>}

RECURSIVE Joined(_, _)
\* the first n fields, a space between two (two spaces after field gap)
Joined(n, gap) ==
    IF n = 1 THEN <<FieldNames[1]>>
    ELSE Joined(n - 1, gap) \o (IF gap = n - 1 THEN <<" ", " ">> ELSE <<" ">>)
         \o <<FieldNames[n]>>

\* "/dev/sda1 /mnt ext4 rw,relatime 0 0"
ExampleLine ==
    <<"/", "d", "e", "v", "/", "s", "d", "a", "1", " ", "/", "m", "n", "t", " ",
      "e", "x", "t", "4", " ", "r", "w", ",", "r", "e", "l", "a", "t", "i", "m", "e",
      " ", "0", " ", "0">>

LineTexts ==
    {Joined(n, gap) \o e : n \in 1..Len(FieldNames), gap \in {0, 1}, e \in Endings}
    \cup {ExampleLine, <<>>}

\* an item of BufRead::lines(): a line, or a read error (bytes that are not UTF-8)
LineItems == {[ok |-> TRUE, text |-> t] : t \in LineTexts} \cup {[ok |-> FALSE, text |-> <<>>]}

MountFiles ==
    {[opens |-> TRUE, lines |-> ls] : ls \in UNION {[1..n -> LineItems] : n \in 0..MaxLines}}
    \cup {[opens |-> FALSE, lines |-> <<>>]}

\* File::open("/proc/mounts") and the construction of the iterator
mount_list_call ==
    /\ pc = "proc"
    /\ IF mounts.opens
       THEN /\ pc' = "mounts"
            /\ mlist' = [tag |-> "Ok", val |-> <<>>]
       ELSE /\ pc' = "mounted"
            /\ mlist' = [tag |-> "Err", err |-> "ReadFile"]
    /\ UNCHANGED <<listVars, devVars, optVars, popVars, mounts, lines_read>>

\* the reader consumes one item: map_while(Result::ok) ends the iterator at
\* a read error, filter_map yields the record of the line or passes over it
mount_next ==
    /\ pc = "mounts"
    /\ IF lines_read = Len(mounts.lines)
       THEN /\ pc' = "mounted"
            /\ UNCHANGED <<lines_read, mlist>>
       ELSE LET x == mounts.lines[lines_read + 1]
            IN  IF ~x.ok
                THEN /\ pc' = "mounted"
                     /\ UNCHANGED <<lines_read, mlist>>
                ELSE LET m == mount_of_line(x.text)
                     IN  /\ lines_read' = lines_read + 1
                         /\ mlist' = IF m = None THEN mlist
                                     ELSE [mlist EXCEPT !.val = Append(@, m[1])]
                         /\ pc' = pc
    /\ UNCHANGED <<listVars, devVars, optVars, popVars, mounts>>

(***************************************************************************)
(* Mount::iter_mountopts                                                   *)
(***************************************************************************)
Comma == ","
Equals == "="

RECURSIVE FindFrom(_, _, _)
\* the index of the first c of str at or after i, 0 when there is none
FindFrom(str, c, i) ==
    IF i > Len(str) THEN 0
    ELSE IF str[i] = c THEN i
         ELSE FindFrom(str, c, i + 1)

RECURSIVE RFindFrom(_, _, _)
\* the index of the last c of str at or before i, 0 when there is none
RFindFrom(str, c, i) ==
    IF i = 0 THEN 0
    ELSE IF str[i] = c THEN i
         ELSE RFindFrom(str, c, i - 1)

\* variant of split_once that cuts at the last delimiter (str::rsplit_once)
rsplit_once(str, delim) ==
    LET i == RFindFrom(str, delim, Len(str))
    IN  IF i = 0 THEN None
        ELSE Some(<<SubSeq(str, 1, i - 1), SubSeq(str, i + 1, Len(str))>>)

\* str::split_once: the text before and the text after the first delimiter
split_once(str, delim) ==
    LET i == FindFrom(str, delim, 1)
    IN  IF i = 0 THEN None
        ELSE Some(<<SubSeq(str, 1, i - 1), SubSeq(str, i + 1, Len(str))>>)

\* the closure of iter_mountopts: map_or((x, None), |(k, v)| (k, Some(v)))
mountopt_of_token(x) ==
    LET kv == split_once(x, Equals)
    IN  IF kv = None THEN <<x, None>>
        ELSE <<kv[1][1], Some(kv[1][2])>>

\* the mount options of the documentation example
ExampleOpts ==
    <<"r", "w", ",", "r", "e", "l", "a", "t", "i", "m", "e", ",",
      "c", "o", "m", "p", "r", "e", "s", "s", "=", "z", "s", "t",
      "d", ":", "1", ",", "s", "s", "d", ",", "d", "i", "s", "c",
      "a", "r", "d", "=", "a", "s", "y", "n", "c", ",", "s", "u",
      "b", "v", "o", "l", "=", "/", "r", "o", "o", "t">>

\* the characters mount options are made of here
OptChars == {"k", "v", Equals, Comma}

\* the longest mountopts tried besides the documentation example
MaxOptsLen == 4

OptTexts ==
    {ExampleOpts} \cup UNION {[1..n -> OptChars] : n \in 0..MaxOptsLen}

\* Mount::iter_mountopts: builds the lazy iterator, nothing is yielded yet
iter_mountopts_call ==
    /\ pc = "opt"
    /\ pc' = "opts"
    /\ opts_it' = split(mountopts, Comma)
    /\ pairs' = <<>>
    /\ UNCHANGED <<listVars, devVars, mountVars, popVars, mountopts>>

\* Iterator::next on the iterator: the next token mapped, or the end
opts_next ==
    /\ pc = "opts"
    /\ IF opts_it = <<>>
       THEN /\ pc' = "opts_end"
            /\ UNCHANGED <<opts_it, pairs>>
       ELSE /\ pairs' = Append(pairs, mountopt_of_token(Head(opts_it)))
            /\ opts_it' = Tail(opts_it)
            /\ pc' = pc
    /\ UNCHANGED <<listVars, devVars, mountVars, popVars, mountopts>>

(***************************************************************************)
(* Populate                                                                *)
(***************************************************************************)
RECURSIVE populate_scan_skips_errors(_, _, _)
\* variant of the loop that passes over a broken link as from_path's find does
populate_scan_skips_errors(items, rec, k) ==
    IF items = <<>> THEN [ret |-> [tag |-> "Ok", val |-> None], rec |-> rec]
    ELSE LET x == Head(items)
         IN  IF ~x.ok \/ x.dest # rec.fullname
             THEN populate_scan_skips_errors(Tail(items), rec, k)
             ELSE [ret |-> [tag |-> "Ok", val |-> Some(x.src)],
                   rec |-> [rec EXCEPT ![k] = Some(x.src)]]

RECURSIVE populate_scan(_, _, _)
\* the loop `for x in ls_symlinks(..)? { let (p, s) = x?; .. }` and the
\* Ok(None) after it: the value returned and the record afterwards
populate_scan(items, rec, k) ==
    IF items = <<>> THEN [ret |-> [tag |-> "Ok", val |-> None], rec |-> rec]
    ELSE LET x == Head(items)
         IN  IF ~x.ok
             THEN [ret |-> [tag |-> "Err",
                            err |-> [err |-> x.err, dir |-> x.dir, src |-> x.src]],
                   rec |-> rec]
             ELSE IF x.dest # rec.fullname
                  THEN populate_scan(Tail(items), rec, k)
                  ELSE [ret |-> [tag |-> "Ok", val |-> Some(x.src)],
                        rec |-> [rec EXCEPT ![k] = Some(x.src)]]

\* populate_<k> on the record rec
populate(fsx, rec, k) ==
    LET ls == ls_symlinks(k, fsx[k])
    IN  IF ls.tag = "Err" THEN [ret |-> [tag |-> "Err", err |-> ls.err], rec |-> rec]
        ELSE populate_scan(ls.items, rec, k)

\* a link name a slot holds from an earlier state of the directories
StaleName == "l0"

\* the record of a node whose slots all hold names from an earlier state
StaleRecord(rec) ==
    [s \in DOMAIN rec |-> IF s \in KindSet THEN Some(StaleName) ELSE rec[s]]

\* the records populate_* is called on: from_path_unpopulated's record of a
\* node, as it is or with the slots filled in before
StartRecords ==
    UNION {{from_abs_path_unpopulated(d).val,
            StaleRecord(from_abs_path_unpopulated(d).val)} : d \in DevNodes}

\* how many changes the environment makes before the populate_* calls
MaxSetupPop == 2

\* the caller obtains the record
populate_begin(rec) ==
    /\ pc = "setup"
    /\ pc' = "pop"
    /\ dev' = rec
    /\ UNCHANGED <<listVars, mountVars, optVars, popVars, phys, sysfs, cap>>

\* a call of populate_<k> on the record
populate_call(k) ==
    /\ pc = "pop"
    /\ pc' = pc
    /\ pkind' = k
    /\ pret' = populate(fs, dev, k).ret
    /\ dev' = populate(fs, dev, k).rec
    /\ UNCHANGED <<listVars, mountVars, optVars, phys, sysfs, cap>>

(***************************************************************************)
(* Initial states and specifications                                       *)
(***************************************************************************)
InitFs == [k \in KindSet |-> AbsentDir]

NoSysfs == [stat_ok |-> FALSE, read_ok |-> FALSE, content |-> <<>>]
NoMounts == [opens |-> FALSE, lines |-> <<>>]

ListIdle ==
    /\ fs = InitFs
    /\ done = {}
    /\ kind = "none"
    /\ it = <<>>
    /\ order = <<>>
    /\ result = {}
    /\ ret = NoRet
    /\ arg = <<>>
    /\ res = NoRet

DevIdle ==
    /\ dev = Default
    /\ phys = NoRet
    /\ sysfs = NoSysfs
    /\ cap = NoRet

MountIdle ==
    /\ mounts = NoMounts
    /\ lines_read = 0
    /\ mlist = NoRet

OptIdle ==
    /\ mountopts = <<>>
    /\ opts_it = <<>>
    /\ pairs = <<>>

PopIdle ==
    /\ pkind = "none"
    /\ pret = NoRet

Init ==
    /\ pc = "setup"
    /\ budget = MaxSetup
    /\ ListIdle
    /\ DevIdle
    /\ MountIdle
    /\ OptIdle
    /\ PopIdle

Next ==
    \/ \E k \in KindSet, t \in EntryTargets : EnvAddEntry(k, t)
    \/ \E k \in KindSet : EnvChmod(k)
    \/ list_call
    \/ list_open
    \/ list_step
    \/ list_return
    \/ \E a \in NodeArgs \cup LinkArgs(fs) : from_path_call(a)

Spec == Init /\ [][Next]_vars

InitPerm ==
    /\ pc = "setup"
    /\ budget = MaxSetupPerm
    /\ ListIdle
    /\ DevIdle
    /\ MountIdle
    /\ OptIdle
    /\ PopIdle

NextPerm ==
    \/ \E k \in KindSet, t \in EntryTargets : EnvAddEntry(k, t)
    \/ \E k \in KindSet : EnvChmod(k)
    \/ list_call
    \/ perm_open
    \/ list_step
    \/ list_return

SpecPerm == InitPerm /\ [][NextPerm]_vars

\* a predicate or capacity() called on any device, over any size file
InitDev ==
    /\ pc = "dev"
    /\ budget = 0
    /\ ListIdle
    /\ MountIdle
    /\ dev \in Devices
    /\ phys = NoRet
    /\ sysfs \in SysfsStates
    /\ cap = NoRet
    /\ OptIdle
    /\ PopIdle

NextDev ==
    \/ is_physical_call
    \/ capacity_call

SpecDev == InitDev /\ [][NextDev]_vars

\* Mount::list over any /proc/mounts
InitMount ==
    /\ pc = "proc"
    /\ budget = 0
    /\ ListIdle
    /\ DevIdle
    /\ mounts \in MountFiles
    /\ lines_read = 0
    /\ mlist = NoRet
    /\ OptIdle
    /\ PopIdle

NextMount ==
    \/ mount_list_call
    \/ mount_next

SpecMount == InitMount /\ [][NextMount]_vars

\* Mount::iter_mountopts on a Mount with any mountopts
InitOpts ==
    /\ pc = "opt"
    /\ budget = 0
    /\ ListIdle
    /\ DevIdle
    /\ MountIdle
    /\ mountopts \in OptTexts
    /\ opts_it = <<>>
    /\ pairs = <<>>
    /\ PopIdle

NextOpts ==
    \/ iter_mountopts_call
    \/ opts_next

SpecOpts == InitOpts /\ [][NextOpts]_vars

\* any sequence of populate_* calls on a record, over any directories
InitPop ==
    /\ pc = "setup"
    /\ budget = MaxSetupPop
    /\ ListIdle
    /\ DevIdle
    /\ MountIdle
    /\ OptIdle
    /\ PopIdle

NextPop ==
    \/ \E k \in KindSet, t \in EntryTargets : EnvAddEntry(k, t)
    \/ \E k \in KindSet : EnvChmod(k)
    \/ \E rec \in StartRecords : populate_begin(rec)
    \/ \E k \in KindSet : populate_call(k)

SpecPop == InitPop /\ [][NextPop]_vars

(***************************************************************************)
(* Properties of BlockDevice::list and BlockDevice::from_path              *)
(***************************************************************************)
\* the links of directory k that resolve to the node d
LinksTo(k, d) ==
    {i \in 1..Len(fs[k].entries) :
        fs[k].entries[i].is_symlink /\ fs[k].entries[i].resolves
        /\ fs[k].entries[i].dest = d}

\* C1: at every step of the fold the map holds at most one record per
\* fullname, and the collection list() returns holds every record once and
\* no two records with the same fullname.
NoDuplicateDevice ==
    /\ \A e1, e2 \in result : e1.val.fullname = e2.val.fullname => e1 = e2
    /\ ret.tag = "Ok" =>
          /\ \A v \in DOMAIN ret.val : ret.val[v] = 1
          /\ \A v1, v2 \in DOMAIN ret.val : v1.fullname = v2.fullname => v1 = v2

\* C1 witness: list() returned with one record for a node that two links of
\* one directory and a link of another directory resolve to.
NoDuplicateDeviceWitness ==
    /\ pc = "listed"
    /\ ret.tag = "Ok"
    /\ \E d \in DevNodes, k1, k2 \in KindSet :
          /\ k1 # k2
          /\ Cardinality(LinksTo(k1, d)) >= 2
          /\ LinksTo(k2, d) # {}
          /\ Cardinality({v \in DOMAIN ret.val : v.fullname = d}) = 1

\* C2: whatever the order of the six passes after by-diskseq, list() returns
\* a collection exactly when the source's order does, and then the same one.
PassOrderIrrelevant ==
    pc = "listed" =>
        /\ (ret.tag = "Ok") <=> (ListAll(fs).tag = "Ok")
        /\ ret.tag = "Ok" => ret = ListAll(fs)

\* C2 witness: by-uuid was passed over before by-path, both hold a link to the
\* same node, and list() returned that node's record with both slots set.
PassOrderIrrelevantWitness ==
    /\ pc = "listed"
    /\ ret.tag = "Ok"
    /\ order = <<"uuid", "path">>
    /\ \E v \in DOMAIN ret.val : v.uuid # None /\ v.path # None

\* C3 (as claimed): with every link resolvable, from_path on the fullname of a
\* record list() returned gives a record identical to it.
FromPathMatchesList ==
    (/\ pc = "resolved"
     /\ ret.tag = "Ok"
     /\ arg.via = "node"
     /\ \E v \in DOMAIN ret.val : v.fullname = arg.path
     /\ \A k \in KindSet : \A i \in 1..Len(fs[k].entries) :
            fs[k].entries[i].is_symlink => fs[k].entries[i].resolves)
    => /\ res.tag = "Ok"
       /\ res.val \in DOMAIN ret.val

\* the orders one sequence can be enumerated in
Reorderings(s) ==
    {[i \in 1..Len(s) |-> s[p[i]]] :
        p \in {q \in [1..Len(s) -> 1..Len(s)] :
                  \A i, j \in 1..Len(s) : q[i] = q[j] => i = j}}

\* C4 (as claimed): enumerating the entries of any one directory in another
\* order gives the same collection of records.
EnumerationOrderIrrelevant ==
    (pc = "listed" /\ ret.tag = "Ok") =>
        \A k \in KindSet : \A s \in Reorderings(fs[k].entries) :
            ListAll([fs EXCEPT ![k].entries = s]) = ret

\* C5: a step of list() leaves every record that exists in the map, with its
\* name and fullname and every slot other than the slot of the directory
\* being passed over.
SlotFrame ==
    [][\A e \in result : \E e2 \in result' :
          /\ e2.key = e.key
          /\ e2.val.name = e.val.name
          /\ e2.val.fullname = e.val.fullname
          /\ \A s \in KindSet : s # kind' => e2.val[s] = e.val[s]]_vars

\* C5 witness: the pass over by-uuid has written the uuid slot of a record
\* whose path slot an earlier pass had set.
SlotFrameWitness ==
    /\ pc = "list"
    /\ kind = "uuid"
    /\ it = <<>>
    /\ \E e \in result : e.val.path # None /\ e.val.uuid # None

\* C6: with all seven directories absent list() returns Ok and nothing; an
\* absent directory is never an error, yields no item, and list() only
\* returns Ok after all seven passes.
AbsentDirsTolerated ==
    /\ (pc = "listed" /\ \A k \in KindSet : ~fs[k].exists) =>
          (ret.tag = "Ok" /\ DOMAIN ret.val = {})
    /\ (pc = "listed" /\ ret.tag = "Err" /\ ret.err.err = "ReadDir") =>
          fs[ret.err.dir].exists
    /\ (pc = "list" /\ kind # "none" /\ ~fs[kind].exists) => it = <<>>
    /\ (pc = "listed" /\ ret.tag = "Ok") => done = KindSet

\* C6 witness: list() has returned and none of the seven directories exists.
AbsentDirsToleratedWitness ==
    /\ pc = "listed"
    /\ \A k \in KindSet : ~fs[k].exists
    /\ ret.tag = "Ok"

(***************************************************************************)
(* Properties of the predicates, capacity() and Mount::list                *)
(***************************************************************************)
starts_with(str, pat) == Len(str) >= Len(pat) /\ SubSeq(str, 1, Len(pat)) = pat

\* C7 (as claimed): is_physical returns, for every record, whether the path
\* slot is present or the name begins with "mmcblk".
IsPhysicalTotal ==
    pc = "is_physical" =>
        phys = [tag |-> "Ok", val |-> (dev.path # None \/ starts_with(dev.name, MmcPrefix))]

\* the content without its trailing newline, when it has one
WithoutNewline(str) ==
    IF str # <<>> /\ str[Len(str)] = "\n" THEN SubSeq(str, 1, Len(str) - 1) ELSE str

\* C8 (as claimed): for every content read, capacity() returns Ok with the
\* number the content is once one trailing newline is removed, or Ok(None)
\* when that is no u64.
CapacityParses ==
    (pc = "capacity" /\ sysfs.stat_ok /\ sysfs.read_ok) =>
        cap = [tag |-> "Ok", val |-> parse_u64(WithoutNewline(sysfs.content))]

RECURSIVE Repeated(_, _)
Repeated(pat, n) == IF n = 0 THEN <<>> ELSE pat \o Repeated(pat, n - 1)

\* the line without its trailing " 0 0"s: the line is it followed by n times
\* " 0 0", and it does not end with " 0 0" itself
TrimmedLine(l) ==
    LET w == Len(ZeroZero)
        t == CHOOSE t \in {SubSeq(l, 1, Len(l) - w * n) : n \in 0..(Len(l) \div w)} :
                /\ l = t \o Repeated(ZeroZero, (Len(l) - Len(t)) \div w)
                /\ Len(t) < w \/ SubSeq(t, Len(t) - w + 1, Len(t)) # ZeroZero
    IN  t

SpacesOf(t) == {i \in 1..Len(t) : t[i] = " "}

\* where the j-th field of t ends: the j-th space, or the end of t
FieldEnd(t, j) ==
    IF j > Cardinality(SpacesOf(t)) THEN Len(t) + 1
    ELSE CHOOSE i \in SpacesOf(t) : Cardinality({x \in SpacesOf(t) : x < i}) = j - 1

FieldAt(t, j) ==
    SubSeq(t, (IF j = 1 THEN 0 ELSE FieldEnd(t, j - 1)) + 1, FieldEnd(t, j) - 1)

\* the records the lines are to yield: one for a line whose trimmed text holds
\* three spaces or more, made of its first four fields
RECURSIVE ExpectedMounts(_)
ExpectedMounts(items) ==
    IF items = <<>> THEN <<>>
    ELSE LET t == TrimmedLine(Head(items).text)
         IN  (IF Cardinality(SpacesOf(t)) >= 3
              THEN <<[device |-> FieldAt(t, 1), mountpoint |-> FieldAt(t, 2),
                      fstype |-> FieldAt(t, 3), mountopts |-> FieldAt(t, 4)]>>
              ELSE <<>>)
             \o ExpectedMounts(Tail(items))

Malformed(l) ==
    \/ l # <<>> /\ l[Len(l)] = " "
    \/ ~ends_with(l, ZeroZero)
    \/ \E i \in 1..Len(l) - 1 : l[i] = " " /\ l[i + 1] = " "

\* C10 (as claimed): reading a line that is not formatted properly yields no
\* record.
MalformedLinesSkipped ==
    [][(/\ pc = "mounts"
        /\ lines_read < Len(mounts.lines)
        /\ mounts.lines[lines_read + 1].ok
        /\ Malformed(mounts.lines[lines_read + 1].text))
       => mlist' = mlist]_vars

(***************************************************************************)
(* Properties of Mount::iter_mountopts                                     *)
(***************************************************************************)
\* the positions of the character c in str
PositionsOf(str, c) == {i \in 1..Len(str) : str[i] = c}

\* the position of the n-th comma of str
NthComma(str, n) ==
    CHOOSE i \in PositionsOf(str, Comma) :
        Cardinality({j \in PositionsOf(str, Comma) : j < i}) = n - 1

\* the n-th comma-separated token of str, counted from 1
TokenAt(str, n) ==
    LET last == Cardinality(PositionsOf(str, Comma)) + 1
        lo == IF n = 1 THEN 0 ELSE NthComma(str, n - 1)
        hi == IF n = last THEN Len(str) + 1 ELSE NthComma(str, n)
    IN  SubSeq(str, lo + 1, hi - 1)

\* the pair a token stands for: cut at its first '=', if it has one
PairOf(t) ==
    LET eqs == PositionsOf(t, Equals)
    IN  IF eqs = {} THEN <<t, None>>
        ELSE LET e == CHOOSE i \in eqs : \A j \in eqs : i <= j
             IN  <<SubSeq(t, 1, e - 1), Some(SubSeq(t, e + 1, Len(t)))>>

\* the pairs the documentation example lists
ExamplePairs ==
    <<<<<<"r", "w">>, None>>,
      <<<<"r", "e", "l", "a", "t", "i", "m", "e">>, None>>,
      <<<<"c", "o", "m", "p", "r", "e", "s", "s">>, Some(<<"z", "s", "t", "d", ":", "1">>)>>,
      <<<<"s", "s", "d">>, None>>,
      <<<<"d", "i", "s", "c", "a", "r", "d">>, Some(<<"a", "s", "y", "n", "c">>)>>,
      <<<<"s", "u", "b", "v", "o", "l">>, Some(<<"/", "r", "o", "o", "t">>)>>>>

\* C11: iter_mountopts yields, in the order of mountopts, the pair of each
\* comma-separated token: (token, None) for a token without '=', otherwise
\* (text before the first '=', Some(text after it)); when the iterator ends
\* it has yielded one pair more than mountopts has commas, and for the
\* documentation example exactly the six pairs the documentation lists.
MountOptsYielded ==
    /\ pc \in {"opts", "opts_end"} =>
          /\ Len(pairs) <= Cardinality(PositionsOf(mountopts, Comma)) + 1
          /\ \A i \in 1..Len(pairs) : pairs[i] = PairOf(TokenAt(mountopts, i))
    /\ pc = "opts_end" =>
          /\ Len(pairs) = Cardinality(PositionsOf(mountopts, Comma)) + 1
          /\ mountopts = ExampleOpts => pairs = ExamplePairs

\* the iterator has ended on the documentation example, and on a token with
\* two '=' the value keeps the second one
MountOptsYieldedWitness ==
    /\ pc = "opts_end"
    /\ \/ mountopts = ExampleOpts /\ Len(pairs) = 6
       \/ mountopts = <<"k", Equals, Equals, "v">>
          /\ pairs = << <<<<"k">>, Some(<<Equals, "v">>)>> >>

(***************************************************************************)
(* Properties of BlockDevice::from_path on broken links                    *)
(***************************************************************************)
\* the scan of directory k meets a broken link before a link to the node d
BrokenBeforeMatch(k, d) ==
    /\ fs[k].exists
    /\ fs[k].readable
    /\ \E i \in 1..Len(fs[k].entries) :
          /\ fs[k].entries[i].is_symlink
          /\ ~fs[k].entries[i].resolves
          /\ \A j \in 1..(i - 1) :
                ~(/\ fs[k].entries[j].is_symlink
                  /\ fs[k].entries[j].resolves
                  /\ fs[k].entries[j].dest = d)

\* from_path gets as far as scanning the n-th directory: the ones before it
\* could be read (or do not exist)
ScanReached(n) ==
    \A m \in 1..(n - 1) : ~(fs[Kinds[m]].exists /\ ~fs[Kinds[m]].readable)

\* C12: when a scan of from_path reaches a broken link before finding a
\* match, from_path returns Err(BadSymlink) instead of a record.
FromPathAbortsOnBrokenLink ==
    (/\ pc = "resolved"
     /\ canonicalize(fs, arg) # None
     /\ canonicalize(fs, arg)[1] \in DevNodes
     /\ \E n \in 1..Len(Kinds) :
           ScanReached(n) /\ BrokenBeforeMatch(Kinds[n], canonicalize(fs, arg)[1]))
    => (res.tag = "Err" /\ res.err.err = "BadSymlink")

(***************************************************************************)
(* Properties of Populate                                                  *)
(***************************************************************************)
\* the entries of directory k at which a scan for the node d stops: a link
\* to d or a link that does not canonicalize
ScanStops(k, d) ==
    {i \in 1..Len(fs[k].entries) :
        /\ fs[k].entries[i].is_symlink
        /\ ~fs[k].entries[i].resolves \/ fs[k].entries[i].dest = d}

\* what a call of populate_<k> on the record before has to give: the record
\* after and the value returned
PopulateGives(before, k, after, value) ==
    /\ after.name = before.name
    /\ after.fullname = before.fullname
    /\ \A s \in KindSet \ {k} : after[s] = before[s]
    /\ IF fs[k].exists /\ ~fs[k].readable
       THEN after = before /\ value.tag = "Err" /\ value.err.err = "ReadDir"
       ELSE IF ScanStops(k, before.fullname) = {}
       THEN after = before /\ value = [tag |-> "Ok", val |-> None]
       ELSE LET i == CHOOSE i \in ScanStops(k, before.fullname) :
                        \A j \in ScanStops(k, before.fullname) : i <= j
                f == fs[k].entries[i]
            IN  IF f.resolves
                THEN /\ after[k] = Some(f.src)
                     /\ value = [tag |-> "Ok", val |-> Some(f.src)]
                ELSE after = before /\ value.tag = "Err"
                     /\ value.err.err = "BadSymlink"

\* C13: populate_X changes at most slot X: at the first link to the record's
\* fullname it sets X to the link's name and returns Ok(Some(name)); with no
\* such link it returns Ok(None), with a ReadDir or BadSymlink error before
\* one it returns the error, and in both cases the record, a slot X set
\* before included, stays as it was. name and fullname never change.
PopulateFrame ==
    [][(pc = "pop" /\ pc' = "pop") => PopulateGives(dev, pkind', dev', pret')]_vars

\* populate_X has set X at a link that a broken link follows, while another
\* slot still holds what the caller put there
PopulateFrameWitness ==
    /\ pc = "pop"
    /\ pkind \in KindSet
    /\ pret.tag = "Ok"
    /\ pret.val # None
    /\ dev[pkind] = pret.val
    /\ \E s \in KindSet \ {pkind} : dev[s] = Some(StaleName)
    /\ \E i \in 1..Len(fs[pkind].entries) :
          fs[pkind].entries[i].is_symlink /\ ~fs[pkind].entries[i].resolves

====
